---- MODULE Spec2Model ----
(***************************************************************************)
(* mic_to_text: record a fixed-duration clip from the default input       *)
(* device into a WAV file, upload it for transcription, print the text    *)
(* and delete the file (src/src/main.rs).                                  *)
(*                                                                         *)
(* Two threads: the main thread (main, write_mic_audio_to_file) and the    *)
(* audio callback thread that runs write_input_data once per buffer while  *)
(* the stream is alive.  They share one slot, Arc<Mutex<Option<WavWriter>>>.*)
(***************************************************************************)
EXTENDS Integers, Sequences, FiniteSets, TLC

\* Bounds of the model.
MaxBuffers == 3          \* buffers the device delivers in one run
MaxFrames == 1           \* frames per buffer (a buffer holds frames * channels samples)
MaxWriteErrors == 1      \* sample writes that fail in one run
MaxFinalizeAttempts == 3 \* finalize attempts of the sink harness
MaxStreamErrors == 1     \* errors the audio subsystem reports in one run

None == "None"
\* None of an Option that holds a record.
NoRecord == [none |-> TRUE]

\* cpal::SampleFormat
SampleFormats == {"I8", "I16", "I32", "I64", "U8", "U16", "U32", "U64", "F32", "F64"}
Channels == {1, 2}
SampleRates == {44100}
Configs == [channels : Channels, sample_rate : SampleRates, sample_format : SampleFormats]
Texts == {"hello world", ""}

\* cpal::SampleFormat::sample_size, in bytes
sample_size(f) ==
    CASE f \in {"I8", "U8"} -> 1
      [] f \in {"I16", "U16"} -> 2
      [] f \in {"I32", "U32", "F32"} -> 4
      [] f \in {"I64", "U64", "F64"} -> 8

\* cpal::SampleFormat::is_float
is_float(f) == f \in {"F32", "F64"}

\* fn sample_format(format) -> hound::SampleFormat
sample_format(f) == IF is_float(f) THEN "Float" ELSE "Int"

\* wav_spec_from_config with the byte width taken for the bit width.
wav_spec_bytes_as_bits(c) ==
    [channels        |-> c.channels,
     sample_rate     |-> c.sample_rate,
     bits_per_sample |-> sample_size(c.sample_format) % 65536,
     sample_format   |-> sample_format(c.sample_format)]

\* fn wav_spec_from_config(config) -> hound::WavSpec.  channels (u16) and
\* sample_rate (u32) keep their types; the byte width (usize) times 8 is cast
\* to u16.
wav_spec_from_config(c) ==
    [channels        |-> c.channels,
     sample_rate     |-> c.sample_rate,
     bits_per_sample |-> (sample_size(c.sample_format) * 8) % 65536,
     sample_format   |-> sample_format(c.sample_format)]

\* The arms of the match in write_mic_audio_to_file that build a stream.
SupportedFormats == {"I8", "I16", "I32", "F32"}

\* The type U of write_input_data::<T, U> in each arm of the match: the type
\* of the samples the callback hands to write_sample.
CallbackSampleType(f) ==
    CASE f = "I8" -> "i8"
      [] f = "I16" -> "i16"
      [] f = "I32" -> "i32"
      [] f = "F32" -> "f32"

\* U::from_sample(sample) with U = T, the only instantiations the match uses.
from_sample(f, s) == s

VARIABLES
    pc,          \* position of the main thread
    exit,        \* how the main-side code ended: "none", "ok", "panic" or an error
    config,      \* InputDevice.config, None before the device is opened
    fileExists,  \* PATH exists on disk
    header,      \* the WavSpec written to the file, None before creation
    samples,     \* the samples appended to the file, in file order
    finalized,   \* WavWriter::finalize returned Ok
    slot,        \* the Option inside the mutex: "Some" or "None"
    lock,        \* the mutex: [holder, poisoned]
    stream,      \* "none", "built", "playing", "dropped"
    cb,          \* the callback thread: [pc, buf, i]
    stdout,      \* lines printed to standard output
    trace,       \* the steps the main thread executed: <<[step, ok]>>
    delivered,   \* samples handed to callbacks so far
    buffers,     \* callbacks invoked so far
    dropped,     \* the buffers dropped, in order: [lockFailed, absent]
    writeErrs,   \* sample writes that failed
    stderr,      \* lines the program wrote with eprintln!
    fileRead,    \* what std::fs::read returned, None before
    request,     \* the transcription request was sent
    response,    \* response.text, None before the transcription returned
    finOutcomes  \* outcome of each run of the finalize chain

vars == <<pc, exit, config, fileExists, header, samples, finalized, slot, lock,
          stream, cb, stdout, trace, delivered, buffers, dropped, writeErrs, stderr,
          fileRead, request, response, finOutcomes>>

mainVars == <<pc, exit, config, stdout, trace, fileRead, request, response, finOutcomes>>
fileVars == <<fileExists, header, samples, finalized>>
cbVars == <<cb, delivered, buffers, dropped, writeErrs, stderr>>

IdleCb == [pc |-> "idle", buf |-> <<>>, i |-> 0]
FreeLock == [holder |-> "free", poisoned |-> FALSE]

Init ==
    /\ pc = "open_device"
    /\ exit = "none"
    /\ config = NoRecord
    /\ fileExists = FALSE
    /\ header = NoRecord
    /\ samples = <<>>
    /\ finalized = FALSE
    /\ slot = None
    /\ lock = FreeLock
    /\ stream = "none"
    /\ cb = IdleCb
    /\ stdout = <<>>
    /\ trace = <<>>
    /\ delivered = 0
    /\ buffers = 0
    /\ dropped = [lockFailed |-> <<>>, absent |-> <<>>]
    /\ writeErrs = 0
    /\ stderr = <<>>
    /\ fileRead = NoRecord
    /\ request = FALSE
    /\ response = None
    /\ finOutcomes = <<>>

Step(s, ok) == trace' = Append(trace, [step |-> s, ok |-> ok])

\* The main-side code ends: Err returned to the process boundary, or a panic.
FailTo(endPc, s, e) ==
    /\ pc' = endPc
    /\ exit' = e
    /\ Step(s, FALSE)

Fail(s, e) == FailTo("done", s, e)

----------------------------------------------------------------------------
\* main, line 42: InputDevice::new()?

\* No default input device: ok_or(..).unwrap() panics.
OpenDeviceNone ==
    /\ pc = "open_device"
    /\ Fail("open_device", "panic")
    /\ UNCHANGED <<config, stdout, fileRead, request, response, finOutcomes, fileVars, slot, lock, stream, cbVars>>

\* OpenDeviceNoConfig with the file of line 45 created before the device is
\* opened.
OpenDeviceNoConfigAfterCreate ==
    /\ pc = "open_device"
    /\ fileExists' = TRUE
    /\ Fail("open_device", "ConfigQueryFailed")
    /\ UNCHANGED <<config, stdout, fileRead, request, response, finOutcomes, header, samples,
                   finalized, slot, lock, stream, cbVars>>

\* device.default_input_config()? returns Err.
OpenDeviceNoConfig ==
    /\ pc = "open_device"
    /\ Fail("open_device", "ConfigQueryFailed")
    /\ UNCHANGED <<config, stdout, fileRead, request, response, finOutcomes, fileVars, slot, lock, stream, cbVars>>

OpenDeviceOk ==
    /\ pc = "open_device"
    /\ \E c \in Configs : config' = c
    /\ pc' = "create_file"
    /\ Step("open_device", TRUE)
    /\ UNCHANGED <<exit, stdout, fileRead, request, response, finOutcomes, fileVars, slot, lock, stream, cbVars>>

\* main, lines 44-48: the spec, WavWriter::create(PATH, spec)?, the shared
\* slot, and the first println.
CreateFileOk ==
    /\ pc = "create_file"
    /\ fileExists' = TRUE
    /\ header' = wav_spec_from_config(config)
    /\ samples' = <<>>
    /\ finalized' = FALSE
    /\ slot' = "Some"
    /\ stdout' = Append(stdout, "Begin recording...")
    /\ pc' = "build_stream"
    /\ Step("create_file", TRUE)
    /\ UNCHANGED <<exit, config, fileRead, request, response, finOutcomes, lock, stream, cbVars>>

\* WavWriter::create fails: File::create failed (no file), or writing the
\* header failed after the file was created.
CreateFileErr ==
    /\ pc = "create_file"
    /\ \E made \in BOOLEAN : fileExists' = made
    /\ Fail("create_file", "CreateFailed")
    /\ UNCHANGED <<config, stdout, fileRead, request, response, finOutcomes, header, samples,
                   finalized, slot, lock, stream, cbVars>>

----------------------------------------------------------------------------
\* write_mic_audio_to_file, lines 75-119: println of the sample format, then
\* the match on config.sample_format().

\* The default arm: Err("Unsupported sample format ...").
BuildStreamUnsupported ==
    /\ pc = "build_stream"
    /\ config.sample_format \notin SupportedFormats
    /\ stdout' = Append(stdout, "sample format")
    /\ Fail("build_stream", "UnsupportedSampleFormat")
    /\ UNCHANGED <<config, fileRead, request, response, finOutcomes, fileVars, slot, lock, stream, cbVars>>

\* device.build_input_stream(..)? returns Err.
BuildStreamErr ==
    /\ pc = "build_stream"
    /\ config.sample_format \in SupportedFormats
    /\ stdout' = Append(stdout, "sample format")
    /\ Fail("build_stream", "StreamStartFailed")
    /\ UNCHANGED <<config, fileRead, request, response, finOutcomes, fileVars, slot, lock, stream, cbVars>>

BuildStreamOk ==
    /\ pc = "build_stream"
    /\ config.sample_format \in SupportedFormats
    /\ stdout' = Append(stdout, "sample format")
    /\ stream' = "built"
    /\ pc' = "play"
    /\ Step("build_stream", TRUE)
    /\ UNCHANGED <<exit, config, fileRead, request, response, finOutcomes, fileVars, slot, lock, cbVars>>

\* StreamStopped for a drop that does not wait for the running callback.
StreamStoppedAtOnce == TRUE

\* drop(stream) returns only when no callback is running, and none starts
\* afterwards (cpal's Stream::drop).
StreamStopped == cb.pc = "idle"

\* line 121: stream.play()?
PlayOk ==
    /\ pc = "play"
    /\ stream' = "playing"
    /\ pc' = "sleep"
    /\ Step("play", TRUE)
    /\ UNCHANGED <<exit, config, stdout, fileRead, request, response, finOutcomes, fileVars, slot, lock, cbVars>>

\* play() returns Err; the early return drops the stream.
PlayErr ==
    /\ pc = "play"
    /\ StreamStopped
    /\ stream' = "dropped"
    /\ Fail("play", "StreamStartFailed")
    /\ UNCHANGED <<config, stdout, fileRead, request, response, finOutcomes, fileVars, slot, lock, cbVars>>

\* Wake without the drop of line 125: the stream would live to the end of
\* the function.
WakeNoDrop ==
    /\ pc = "sleep"
    /\ pc' = "fin_lock"
    /\ Step("sleep", TRUE)
    /\ UNCHANGED <<exit, config, stdout, fileRead, request, response, finOutcomes, fileVars, slot,
                   lock, stream, cbVars>>

\* line 124: std::thread::sleep(duration) returns.
Wake ==
    /\ pc = "sleep"
    /\ pc' = "drop"
    /\ Step("sleep", TRUE)
    /\ UNCHANGED <<exit, config, stdout, fileRead, request, response, finOutcomes, fileVars, slot,
                   lock, stream, cbVars>>

\* line 125: drop(stream)
DropStream ==
    /\ pc = "drop"
    /\ StreamStopped
    /\ stream' = "dropped"
    /\ pc' = "fin_lock"
    /\ Step("drop", TRUE)
    /\ UNCHANGED <<exit, config, stdout, fileRead, request, response, finOutcomes, fileVars, slot,
                   lock, cbVars>>

----------------------------------------------------------------------------
\* lines 126-131: wav_file_writer_clone.lock().unwrap().take().unwrap().finalize()?
\* The guard is a temporary of the statement: the lock is held until the
\* statement ends.  endPc is where the caller continues after a failure,
\* okPc after success.

\* .lock().unwrap(): blocks until the mutex is free; panics when poisoned.
LockSlot(endPc) ==
    /\ pc = "fin_lock"
    /\ lock.holder = "free"
    /\ IF lock.poisoned
       THEN /\ FailTo(endPc, "finalize", "panic")
            /\ finOutcomes' = Append(finOutcomes, "panic_poisoned")
            /\ UNCHANGED lock
       ELSE /\ lock' = [lock EXCEPT !.holder = "main"]
            /\ pc' = "fin_take"
            /\ UNCHANGED <<exit, trace, finOutcomes>>
    /\ UNCHANGED <<config, stdout, fileRead, request, response, fileVars, slot, stream, cbVars>>

\* TakeWriter with as_mut() in place of take(): the slot keeps the writer.
TakeWriterKeep(endPc) ==
    /\ pc = "fin_take"
    /\ IF slot = "Some"
       THEN /\ pc' = "fin_do"
            /\ UNCHANGED <<exit, trace, finOutcomes, lock, slot>>
       ELSE /\ FailTo(endPc, "finalize", "panic")
            /\ finOutcomes' = Append(finOutcomes, "panic_none")
            /\ lock' = [holder |-> "free", poisoned |-> TRUE]
            /\ UNCHANGED slot
    /\ UNCHANGED <<config, stdout, fileRead, request, response, fileVars, stream, cbVars>>

\* .take().unwrap(): empties the slot; panics on None, which poisons the
\* mutex as the guard is dropped while unwinding.
TakeWriter(endPc) ==
    /\ pc = "fin_take"
    /\ IF slot = "Some"
       THEN /\ slot' = None
            /\ pc' = "fin_do"
            /\ UNCHANGED <<exit, trace, finOutcomes, lock>>
       ELSE /\ FailTo(endPc, "finalize", "panic")
            /\ finOutcomes' = Append(finOutcomes, "panic_none")
            /\ lock' = [holder |-> "free", poisoned |-> TRUE]
            /\ UNCHANGED slot
    /\ UNCHANGED <<config, stdout, fileRead, request, response, fileVars, stream, cbVars>>

\* .finalize()? returns Ok: the file is closed with a valid header.
FinalizeOk(okPc) ==
    /\ pc = "fin_do"
    /\ finalized' = TRUE
    /\ lock' = [lock EXCEPT !.holder = "free"]
    /\ finOutcomes' = Append(finOutcomes, "ok")
    /\ pc' = okPc
    /\ Step("finalize", TRUE)
    /\ UNCHANGED <<exit, config, stdout, fileRead, request, response, fileExists, header, samples,
                   slot, stream, cbVars>>

\* FinalizeErr with the error discarded (.finalize().ok()).
FinalizeErrIgnored(endPc) ==
    /\ pc = "fin_do"
    /\ lock' = [lock EXCEPT !.holder = "free"]
    /\ finOutcomes' = Append(finOutcomes, "err")
    /\ pc' = "complete"
    /\ Step("finalize", FALSE)
    /\ UNCHANGED <<exit, config, stdout, fileRead, request, response, fileVars, slot, stream, cbVars>>

\* .finalize()? returns Err (an I/O error of the writer).
FinalizeErr(endPc) ==
    /\ pc = "fin_do"
    /\ lock' = [lock EXCEPT !.holder = "free"]
    /\ finOutcomes' = Append(finOutcomes, "err")
    /\ FailTo(endPc, "finalize", "FinalizeFailed")
    /\ UNCHANGED <<config, stdout, fileRead, request, response, fileVars, slot, stream, cbVars>>

FinalizeLock == LockSlot("done")
FinalizeTake == TakeWriter("done")
FinalizeDone == FinalizeOk("complete")
FinalizeFailed == FinalizeErr("done")

\* lines 132-133: println, Ok(()).
Complete ==
    /\ pc = "complete"
    /\ stdout' = Append(stdout, "Recording complete!")
    /\ pc' = "read_file"
    /\ UNCHANGED <<exit, config, trace, fileRead, request, response, finOutcomes, fileVars, slot,
                   lock, stream, cbVars>>

----------------------------------------------------------------------------
\* main, lines 55-67.

\* line 56: std::fs::read(filename)?
ReadFileOk ==
    /\ pc = "read_file"
    /\ fileExists
    /\ fileRead' = [header |-> header, samples |-> samples, finalized |-> finalized]
    /\ pc' = "transcribe"
    /\ Step("read_file", TRUE)
    /\ UNCHANGED <<exit, config, stdout, request, response, finOutcomes, fileVars, slot, lock,
                   stream, cbVars>>

\* ReadFileErr with the error swallowed: the upload goes on with no content.
ReadFileErrContinue ==
    /\ pc = "read_file"
    /\ pc' = "transcribe"
    /\ Step("read_file", FALSE)
    /\ UNCHANGED <<exit, config, stdout, fileRead, request, response, finOutcomes, fileVars, slot,
                   lock, stream, cbVars>>

ReadFileErr ==
    /\ pc = "read_file"
    /\ Fail("read_file", "FileReadFailed")
    /\ UNCHANGED <<config, stdout, fileRead, request, response, finOutcomes, fileVars, slot, lock,
                   stream, cbVars>>

\* lines 58-64: the request is built and client.audio().transcribe(request).await?
TranscribeOk ==
    /\ pc = "transcribe"
    /\ request' = TRUE
    /\ \E t \in Texts : response' = t
    /\ pc' = "print"
    /\ Step("transcribe", TRUE)
    /\ UNCHANGED <<exit, config, stdout, fileRead, finOutcomes, fileVars, slot, lock, stream, cbVars>>

\* TranscribeErr with the file removed before the error is returned.
TranscribeErrCleanup ==
    /\ pc = "transcribe"
    /\ request' = TRUE
    /\ fileExists' = FALSE
    /\ Fail("transcribe", "TranscriptionFailed")
    /\ UNCHANGED <<config, stdout, fileRead, response, finOutcomes, header, samples, finalized,
                   slot, lock, stream, cbVars>>

TranscribeErr ==
    /\ pc = "transcribe"
    /\ request' = TRUE
    /\ Fail("transcribe", "TranscriptionFailed")
    /\ UNCHANGED <<config, stdout, fileRead, response, finOutcomes, fileVars, slot, lock, stream, cbVars>>

\* line 65: println!("{}", response.text)
PrintText ==
    /\ pc = "print"
    /\ stdout' = Append(stdout, response)
    /\ pc' = "delete"
    /\ Step("print", TRUE)
    /\ UNCHANGED <<exit, config, fileRead, request, response, finOutcomes, fileVars, slot, lock,
                   stream, cbVars>>

\* lines 66-67: std::fs::remove_file(PATH)?; Ok(())
DeleteOk ==
    /\ pc = "delete"
    /\ fileExists
    /\ fileExists' = FALSE
    /\ pc' = "done"
    /\ exit' = "ok"
    /\ Step("delete", TRUE)
    /\ UNCHANGED <<config, stdout, fileRead, request, response, finOutcomes, header, samples,
                   finalized, slot, lock, stream, cbVars>>

DeleteErr ==
    /\ pc = "delete"
    /\ Fail("delete", "DeleteFailed")
    /\ UNCHANGED <<config, stdout, fileRead, request, response, finOutcomes, fileVars, slot, lock,
                   stream, cbVars>>

----------------------------------------------------------------------------
\* The callback thread: the closures of lines 92, 98, 104, 110 call
\* write_input_data(data, &wav_file_writer), lines 155-168.

\* The buffer the device delivers next: whole interleaved frames, the samples
\* numbered in delivery order.
Buffer(n) == [k \in 1..(n * config.channels) |-> delivered + k]

\* The audio subsystem invokes the data callback with a buffer.  A stream may
\* run from its creation on; play() starts it otherwise.
CbInvoke ==
    /\ stream \in {"built", "playing"}
    /\ cb.pc = "idle"
    /\ buffers < MaxBuffers
    /\ \E n \in 1..MaxFrames :
          /\ cb' = [pc |-> "try", buf |-> Buffer(n), i |-> 1]
          /\ delivered' = delivered + n * config.channels
    /\ buffers' = buffers + 1
    /\ UNCHANGED <<mainVars, stderr, fileVars, slot, lock, stream, dropped, writeErrs>>

\* writer.try_lock() succeeds exactly when the mutex is free and not poisoned.
TryLockOk == lock.holder = "free" /\ ~lock.poisoned

\* CbTryLock without the test of the slot.
CbTryLockNoCheck ==
    /\ cb.pc = "try"
    /\ IF TryLockOk
       THEN /\ lock' = [lock EXCEPT !.holder = "cb"]
            /\ cb' = [cb EXCEPT !.pc = "write"]
            /\ UNCHANGED dropped
       ELSE /\ cb' = IdleCb
            /\ dropped' = [dropped EXCEPT !.lockFailed = Append(@, cb.buf)]
            /\ UNCHANGED lock
    /\ UNCHANGED <<mainVars, stderr, fileVars, slot, stream, delivered, buffers, writeErrs>>

\* CbTryLock with lock() in place of try_lock(): the callback waits for the
\* mutex.
CbTryLockBlocking ==
    /\ cb.pc = "try"
    /\ lock.holder = "free"
    /\ IF ~lock.poisoned
       THEN IF slot = "Some"
            THEN /\ lock' = [lock EXCEPT !.holder = "cb"]
                 /\ cb' = [cb EXCEPT !.pc = "write"]
                 /\ UNCHANGED dropped
            ELSE /\ cb' = IdleCb
                 /\ dropped' = [dropped EXCEPT !.absent = Append(@, cb.buf)]
                 /\ UNCHANGED lock
       ELSE /\ cb' = IdleCb
            /\ dropped' = [dropped EXCEPT !.lockFailed = Append(@, cb.buf)]
            /\ UNCHANGED lock
    /\ UNCHANGED <<mainVars, stderr, fileVars, slot, stream, delivered, buffers, writeErrs>>

\* lines 160-161 and 166-167: try_lock, then guard.as_mut().  Err(_) of
\* try_lock and None of as_mut both fall through to the end of the function.
CbTryLock ==
    /\ cb.pc = "try"
    /\ IF TryLockOk
       THEN IF slot = "Some"
            THEN /\ lock' = [lock EXCEPT !.holder = "cb"]
                 /\ cb' = [cb EXCEPT !.pc = "write"]
                 /\ UNCHANGED dropped
            ELSE /\ cb' = IdleCb
                 /\ dropped' = [dropped EXCEPT !.absent = Append(@, cb.buf)]
                 /\ UNCHANGED lock
       ELSE /\ cb' = IdleCb
            /\ dropped' = [dropped EXCEPT !.lockFailed = Append(@, cb.buf)]
            /\ UNCHANGED lock
    /\ UNCHANGED <<mainVars, stderr, fileVars, slot, stream, delivered, buffers, writeErrs>>

\* WriteSample losing the sample.
WriteSampleLost(smp, s) == smp

\* lines 163-164: the file after writer.write_sample(U::from_sample(sample)) is Ok.
WriteSample(smp, s) == Append(smp, from_sample(config.sample_format, s))

\* CbWriteOk walking the buffer from its end (input.iter().rev()).
CbWriteOkReversed ==
    /\ cb.pc = "write"
    /\ cb.i <= Len(cb.buf)
    /\ samples' = WriteSample(samples, cb.buf[Len(cb.buf) + 1 - cb.i])
    /\ cb' = [cb EXCEPT !.i = @ + 1]
    /\ UNCHANGED <<mainVars, stderr, fileExists, header, finalized, slot, lock, stream,
                   delivered, buffers, dropped, writeErrs>>

\* One iteration of the loop, the write succeeding.
CbWriteOk ==
    /\ cb.pc = "write"
    /\ cb.i <= Len(cb.buf)
    /\ samples' = WriteSample(samples, cb.buf[cb.i])
    /\ cb' = [cb EXCEPT !.i = @ + 1]
    /\ UNCHANGED <<mainVars, stderr, fileExists, header, finalized, slot, lock, stream,
                   delivered, buffers, dropped, writeErrs>>

\* CbWriteErr with .unwrap() in place of .ok(): the callback panics holding
\* the guard, which poisons the mutex.
CbWriteErrUnwrap ==
    /\ cb.pc = "write"
    /\ cb.i <= Len(cb.buf)
    /\ writeErrs < MaxWriteErrors
    /\ writeErrs' = writeErrs + 1
    /\ lock' = [holder |-> "free", poisoned |-> TRUE]
    /\ cb' = IdleCb
    /\ UNCHANGED <<mainVars, stderr, fileVars, slot, stream, delivered, buffers, dropped>>

\* CbWriteErr with the loop left at the first failed write.
CbWriteErrBreak ==
    /\ cb.pc = "write"
    /\ cb.i <= Len(cb.buf)
    /\ writeErrs < MaxWriteErrors
    /\ writeErrs' = writeErrs + 1
    /\ cb' = [cb EXCEPT !.i = Len(cb.buf) + 1]
    /\ UNCHANGED <<mainVars, stderr, fileVars, slot, lock, stream, delivered, buffers, dropped>>

\* One iteration of the loop, write_sample returning Err, which .ok() discards.
CbWriteErr ==
    /\ cb.pc = "write"
    /\ cb.i <= Len(cb.buf)
    /\ writeErrs < MaxWriteErrors
    /\ writeErrs' = writeErrs + 1
    /\ cb' = [cb EXCEPT !.i = @ + 1]
    /\ UNCHANGED <<mainVars, stderr, fileVars, slot, lock, stream, delivered, buffers, dropped>>

\* CbReturn with the guard leaked: the function returns holding the mutex.
CbReturnKeepLock ==
    /\ cb.pc = "write"
    /\ cb.i > Len(cb.buf)
    /\ cb' = IdleCb
    /\ UNCHANGED <<mainVars, stderr, fileVars, slot, lock, stream, delivered, buffers, dropped,
                   writeErrs>>

\* The loop ends; the guard is dropped and the function returns.
CbReturn ==
    /\ cb.pc = "write"
    /\ cb.i > Len(cb.buf)
    /\ lock' = [lock EXCEPT !.holder = "free"]
    /\ cb' = IdleCb
    /\ UNCHANGED <<mainVars, stderr, fileVars, slot, stream, delivered, buffers, dropped, writeErrs>>

\* StreamErr with the error ending the run instead of being printed only.
StreamErrAbort ==
    /\ stream \in {"built", "playing"}
    /\ cb.pc = "idle"
    /\ pc # "done"
    /\ Len(stderr) < MaxStreamErrors
    /\ stderr' = Append(stderr, "An error occurred on the audio stream")
    /\ pc' = "done"
    /\ exit' = "StreamError"
    /\ UNCHANGED <<config, stdout, trace, fileRead, request, response, finOutcomes, fileVars,
                   slot, lock, stream, cb, delivered, buffers, dropped, writeErrs>>

\* line 84: the audio subsystem reports a stream error to err_fn, on the
\* callback thread between two data callbacks; err_fn prints it to standard
\* error and the stream goes on.
StreamErr ==
    /\ stream \in {"built", "playing"}
    /\ cb.pc = "idle"
    /\ Len(stderr) < MaxStreamErrors
    /\ stderr' = Append(stderr, "An error occurred on the audio stream")
    /\ UNCHANGED <<mainVars, fileVars, slot, lock, stream, cb, delivered, buffers, dropped,
                   writeErrs>>

Callback == CbInvoke \/ CbTryLock \/ CbWriteOk \/ CbWriteErr \/ CbReturn

----------------------------------------------------------------------------
Next ==
    \/ OpenDeviceNone \/ OpenDeviceNoConfig \/ OpenDeviceOk
    \/ CreateFileOk \/ CreateFileErr
    \/ BuildStreamUnsupported \/ BuildStreamErr \/ BuildStreamOk
    \/ PlayOk \/ PlayErr
    \/ Wake \/ DropStream
    \/ FinalizeLock \/ FinalizeTake \/ FinalizeDone \/ FinalizeFailed
    \/ Complete
    \/ ReadFileOk \/ ReadFileErr
    \/ TranscribeOk \/ TranscribeErr
    \/ PrintText
    \/ DeleteOk \/ DeleteErr
    \/ Callback \/ StreamErr

\* The steps of the main thread.
MainNext ==
    \/ OpenDeviceNone \/ OpenDeviceNoConfig \/ OpenDeviceOk
    \/ CreateFileOk \/ CreateFileErr
    \/ BuildStreamUnsupported \/ BuildStreamErr \/ BuildStreamOk
    \/ PlayOk \/ PlayErr
    \/ Wake \/ DropStream
    \/ FinalizeLock \/ FinalizeTake \/ FinalizeDone \/ FinalizeFailed
    \/ Complete
    \/ ReadFileOk \/ ReadFileErr
    \/ TranscribeOk \/ TranscribeErr
    \/ PrintText
    \/ DeleteOk \/ DeleteErr

\* The steps of a callback that was invoked, up to its return.
CbStep == CbTryLock \/ CbWriteOk \/ CbWriteErr \/ CbReturn

Spec == Init /\ [][Next]_vars

\* Both threads are scheduled: the main thread goes on whenever it can (its
\* sleep ends, its calls return), and a callback that was invoked runs to its
\* return.
SpecFair == Init /\ [][Next]_vars /\ WF_vars(MainNext) /\ WF_vars(CbStep)

----------------------------------------------------------------------------
\* The sink on its own: the slot of line 46 holding a writer, callbacks that
\* run write_input_data at any time, and the finalize chain of lines 126-131
\* run repeatedly, with no stream stop ordering the two.

SinkInit ==
    /\ pc = "h_idle"
    /\ exit = "none"
    /\ config \in {c \in Configs : c.sample_format \in SupportedFormats}
    /\ fileExists = TRUE
    /\ header = wav_spec_from_config(config)
    /\ samples = <<>>
    /\ finalized = FALSE
    /\ slot = "Some"
    /\ lock = FreeLock
    /\ stream = "playing"
    /\ cb = IdleCb
    /\ stdout = <<>>
    /\ trace = <<>>
    /\ delivered = 0
    /\ buffers = 0
    /\ dropped = [lockFailed |-> <<>>, absent |-> <<>>]
    /\ writeErrs = 0
    /\ stderr = <<>>
    /\ fileRead = NoRecord
    /\ request = FALSE
    /\ response = None
    /\ finOutcomes = <<>>

\* A thread starts the finalize chain.
SinkBegin ==
    /\ pc = "h_idle"
    /\ Len(finOutcomes) < MaxFinalizeAttempts
    /\ pc' = "fin_lock"
    /\ exit' = "none"
    /\ UNCHANGED <<config, stdout, trace, fileRead, request, response, finOutcomes, fileVars,
                   slot, lock, stream, cbVars>>

SinkLock == LockSlot("h_idle")
SinkTake == TakeWriter("h_idle")
SinkDone == FinalizeOk("h_idle")
SinkFailed == FinalizeErr("h_idle")

SinkNext == Callback \/ SinkBegin \/ SinkLock \/ SinkTake \/ SinkDone \/ SinkFailed

SpecSink == SinkInit /\ [][SinkNext]_vars

----------------------------------------------------------------------------
\* Properties.

Range(q) == {q[i] : i \in DOMAIN q}
FinPcs == {"fin_lock", "fin_take", "fin_do"}

\* C1: the stream is stopped strictly before finalize is attempted: the main
\* thread is in the finalize chain, or has run it, only with the stream
\* dropped, and with the stream dropped no callback is running or starts; no
\* state has a callback in progress while finalize is in progress.
C1_StopBeforeFinalize ==
    /\ (pc \in FinPcs \/ finOutcomes # <<>>) => stream = "dropped"
    /\ stream = "dropped" => cb.pc = "idle"
    /\ ~(cb.pc # "idle" /\ pc \in FinPcs)

\* Callbacks ran, the stream was dropped and the writer is being taken.
C1_Witness ==
    /\ pc = "fin_take"
    /\ stream = "dropped"
    /\ buffers > 0
    /\ Len(samples) > 0

\* C2: once the slot is empty the file never changes, whatever the
\* interleaving; a callback that gets the lock and finds the slot empty
\* returns having changed neither the file, the slot nor the lock.
C2_NoWriteAfterFinalize ==
    [][/\ slot = None => (samples' = samples /\ header' = header /\ (finalized => finalized'))
       /\ (cb.pc = "try" /\ cb' # cb /\ TryLockOk /\ slot = None)
             => (cb' = IdleCb /\ UNCHANGED <<fileVars, slot, lock>>)]_vars

\* A callback got the lock after a successful finalize and found the slot empty.
C2_Witness ==
    /\ finalized
    /\ Len(dropped.absent) > 0
    /\ Len(samples) > 0

\* C3: the writer is taken at most once and finalize succeeds at most once;
\* after the first run of the finalize chain the slot is empty for good, and
\* every later run panics without taking or finalizing anything.
C3_FinalizeOnce ==
    /\ Cardinality({i \in DOMAIN finOutcomes : finOutcomes[i] \in {"ok", "err"}})
          + (IF pc = "fin_do" THEN 1 ELSE 0) <= 1
    /\ Cardinality({i \in DOMAIN finOutcomes : finOutcomes[i] = "ok"}) <= 1
    /\ \A i \in DOMAIN finOutcomes :
          i >= 2 => finOutcomes[i] \in {"panic_none", "panic_poisoned"}
    /\ (finOutcomes # <<>> \/ pc = "fin_do") => slot = None
    /\ finalized <=> (finOutcomes # <<>> /\ finOutcomes[1] = "ok")

\* A second finalize attempt was made after a successful one, and panicked.
C3_Witness ==
    /\ Len(finOutcomes) >= 2
    /\ finOutcomes[1] = "ok"
    /\ finOutcomes[2] = "panic_none"
    /\ slot = None

\* The header of the native format, by the WAV conventions: bits per sample
\* and the int/float flag.
HeaderOf(c) ==
    [channels        |-> c.channels,
     sample_rate     |-> c.sample_rate,
     bits_per_sample |-> CASE c.sample_format = "I8" -> 8
                           [] c.sample_format = "I16" -> 16
                           [] c.sample_format = "I32" -> 32
                           [] c.sample_format = "F32" -> 32,
     sample_format   |-> IF c.sample_format = "F32" THEN "Float" ELSE "Int"]

\* C4: when every buffer was delivered with the slot present and the lock
\* free and no write failed, the finalized file holds exactly the delivered
\* samples' count, and its header is the one of the device configuration.
C4_CountAndHeader ==
    (finalized /\ writeErrs = 0 /\ dropped.lockFailed = <<>> /\ dropped.absent = <<>>)
       => /\ Len(samples) = delivered
          /\ header = HeaderOf(config)

\* Two buffers were written in full and the file was finalized.
C4_Witness ==
    /\ finalized
    /\ writeErrs = 0
    /\ buffers = 2
    /\ delivered >= 3
    /\ Len(samples) = delivered

\* C5: with a native format outside I8, I16, I32, F32 the run fails with the
\* unsupported-sample-format error before any file is created: the file
\* never exists on that path.
C5_NoFileOnUnsupported ==
    /\ (config # NoRecord /\ config.sample_format \notin SupportedFormats) => ~fileExists
    /\ exit = "UnsupportedSampleFormat" => (~fileExists /\ header = NoRecord)

\* C6: the file is read only after the stream was dropped and finalize
\* returned Ok, and the transcription is requested only after the read; when
\* finalize failed or was not reached, the file is not read and no request is
\* made.
C6_ReadAfterFinalize ==
    /\ fileRead # NoRecord => (stream = "dropped" /\ finOutcomes = <<"ok">> /\ fileRead.finalized)
    /\ request => fileRead # NoRecord
    /\ pc \in {"transcribe", "print", "delete"} => fileRead # NoRecord
    /\ finOutcomes # <<"ok">> => (fileRead = NoRecord /\ ~request)
    /\ exit = "FinalizeFailed" => (fileRead = NoRecord /\ ~request /\ pc = "done")

\* The finalized file, with samples in it, was read and uploaded.
C6_Witness ==
    /\ request
    /\ fileRead # NoRecord
    /\ Len(fileRead.samples) > 0

\* The steps of the run, in the order of the code.
StepOrder ==
    <<"open_device", "create_file", "build_stream", "play", "sleep", "drop",
      "finalize", "read_file", "transcribe", "print", "delete">>

Rank(s) == CHOOSE i \in DOMAIN StepOrder : StepOrder[i] = s

\* C7: a failed step is the last step executed and ends the run in a failed
\* terminal state; steps run in the order of the sequence, none twice.
C7_FailureAborts ==
    /\ \A i \in DOMAIN trace : ~trace[i].ok => i = Len(trace)
    /\ \A i, j \in DOMAIN trace : i < j => Rank(trace[i].step) < Rank(trace[j].step)
    /\ (trace # <<>> /\ ~trace[Len(trace)].ok)
          => (pc = "done" /\ exit \notin {"none", "ok"})
    /\ exit = "ok" => (\A i \in DOMAIN trace : trace[i].ok)
    /\ exit \notin {"none", "ok"} => (pc = "done" /\ ~trace[Len(trace)].ok)

\* The read of the finalized file failed: the run ended there.
C7_Witness ==
    /\ exit = "FileReadFailed"
    /\ Len(trace) = 8
    /\ ~request

\* C8: the file created by the run is gone only after the transcription
\* returned text and the text was printed; after a failed transcription the
\* run has ended with the file on disk.
C8_DeleteOnlyOnSuccess ==
    /\ (header # NoRecord /\ ~fileExists)
          => /\ response # None
             /\ stdout # <<>> /\ stdout[Len(stdout)] = response
             /\ exit = "ok"
    /\ exit = "TranscriptionFailed" => (fileExists /\ pc = "done" /\ response = None)

\* The transcription failed and the finalized file is still there.
C8_Witness ==
    /\ exit = "TranscriptionFailed"
    /\ fileExists
    /\ finalized

\* C9: a callback at its acquire attempt can always take its step, whoever
\* holds the lock; no sample of a buffer dropped at a failed acquire is in the
\* file, and the thread keeps nothing of it.
C9_CallbackNeverBlocks ==
    /\ cb.pc = "try" => ENABLED CbTryLock
    /\ \A i \in DOMAIN dropped.lockFailed :
          Range(dropped.lockFailed[i]) \cap Range(samples) = {}
    /\ cb.pc = "idle" => cb = IdleCb

\* A buffer met the lock held by the main thread and was dropped; an earlier
\* one was written and a later one got the lock.
C9_Witness ==
    /\ Len(dropped.lockFailed) > 0
    /\ Len(samples) > 0
    /\ Len(dropped.absent) > 0
    /\ ~lock.poisoned

\* C10: when the device could not be opened (no device, or no default
\* configuration) the run has failed with no file created, no stream built
\* and no callback invoked.
C10_NoFileWithoutDevice ==
    /\ config = NoRecord
          => /\ ~fileExists /\ header = NoRecord /\ slot = None
             /\ stream = "none" /\ buffers = 0
    /\ (trace # <<>> /\ trace[1] = [step |-> "open_device", ok |-> FALSE])
          => /\ pc = "done" /\ exit \in {"panic", "ConfigQueryFailed"}
             /\ config = NoRecord /\ Len(trace) = 1

\* The device reported no default configuration and the run ended.
C10_Witness ==
    /\ pc = "done"
    /\ exit = "ConfigQueryFailed"
    /\ config = NoRecord

\* C11: the samples of the file are a subsequence of the delivered buffers
\* concatenated in delivery order (the samples 1..delivered): every one was
\* delivered, and they stand in the file in strictly increasing delivery
\* order, so none is duplicated or reordered, inside a buffer or across
\* buffers.
C11_ArrivalOrder ==
    /\ \A i \in DOMAIN samples : samples[i] \in 1..delivered
    /\ \A i, j \in DOMAIN samples : i < j => samples[i] < samples[j]

\* A two-channel buffer and a later buffer are both in the finalized file.
C11_Witness ==
    /\ finalized
    /\ config.channels = 2
    /\ buffers >= 2
    /\ Len(samples) >= 3

C13_StdoutExact ==
    /\ exit = "ok" => stdout = <<"Begin recording...", "Recording complete!", response>>
    /\ (\E i \in DOMAIN stdout : stdout[i] = "Recording complete!") => finalized
    /\ Len(stdout) > 3 => response # None

\* Width and kind of the Rust sample types.
TypeBits(t) == CASE t = "i8" -> 8 [] t = "i16" -> 16 [] t = "i32" -> 32 [] t = "f32" -> 32
TypeKind(t) == IF t = "f32" THEN "Float" ELSE "Int"

\* C14: once a stream is built (the format is one of the four supported),
\* the header of the file agrees with the type of the samples the callback
\* writes: I8 -> 8-bit Int, I16 -> 16-bit Int, I32 -> 32-bit Int, F32 ->
\* 32-bit Float, the bits being the byte width times 8 and the flag Float
\* exactly for a float format; and the samples are written unconverted: with
\* no write failed, the file holds the delivered values themselves.
C14_TypeMatchesHeader ==
    /\ stream # "none"
          => LET t == CallbackSampleType(config.sample_format) IN
             /\ header.bits_per_sample = TypeBits(t)
             /\ header.sample_format = TypeKind(t)
             /\ header.bits_per_sample = sample_size(config.sample_format) * 8
             /\ (header.sample_format = "Float") <=> is_float(config.sample_format)
             /\ header = HeaderOf(config)
    /\ (writeErrs = 0 /\ cb.pc = "idle" /\ dropped.lockFailed = <<>> /\ dropped.absent = <<>>)
          => samples = [k \in 1..delivered |-> k]

\* A float stream is playing and has written samples.
C14_Witness ==
    /\ stream = "playing"
    /\ config.sample_format = "F32"
    /\ Len(samples) > 0

\* The phase of the capture session.
Phase ==
    IF exit \notin {"none", "ok"} THEN "Failed"
    ELSE IF finalized THEN "Finalized"
    ELSE IF stream = "dropped" THEN "Stopped"
    ELSE IF stream = "playing" THEN "Streaming"
    ELSE IF config # NoRecord THEN "Opened"
    ELSE "Idle"

PhaseSteps ==
    {<<"Idle", "Opened">>, <<"Opened", "Streaming">>, <<"Streaming", "Stopped">>,
     <<"Stopped", "Finalized">>}

\* C15: every step keeps the phase, moves it to the next phase of
\* Idle -> Opened -> Streaming -> Stopped -> Finalized, or fails the run, and
\* no step fails the run from Streaming: there the main thread can only
\* finish its sleep and drop the stream, after which it is in the finalize
\* chain.
C15_PhaseOrder ==
    [][/\ \/ Phase' = Phase
          \/ <<Phase, Phase'>> \in PhaseSteps
          \/ Phase' = "Failed" /\ Phase # "Streaming"
       /\ (Phase = "Streaming" /\ pc' # pc)
             => \/ pc = "sleep" /\ pc' = "drop"
                \/ pc = "drop" /\ pc' = "fin_lock" /\ Phase' = "Stopped"
       /\ Phase' = "Stopped" => pc' \in FinPcs]_vars

\* The session went through every phase, a stream error having been reported
\* on the way.
C15_Witness ==
    /\ Phase = "Finalized"
    /\ buffers > 0
    /\ stderr # <<>>

\* C16: under fair scheduling every run reaches Finalized or a failed
\* terminal state, and once the stream is playing the main thread gets to
\* hold the lock of the slot.
C16_CaptureTerminates ==
    /\ <>(finalized \/ (pc = "done" /\ exit \notin {"none", "ok"}))
    /\ (stream = "playing") ~> (lock.holder = "main")

\* The capture ended in Finalized after two callbacks ran.
C16_Witness ==
    /\ pc = "complete"
    /\ finalized
    /\ buffers >= 2

\* C17: no buffer is ever dropped, for a failed acquire or for an empty
\* slot: while the stream is alive the main thread does not hold the lock and
\* the slot holds the writer, so every callback's try_lock succeeds and finds
\* the writer.
C17_NoDropWhileLive ==
    /\ dropped.lockFailed = <<>> /\ dropped.absent = <<>>
    /\ stream \in {"built", "playing"}
          => (lock.holder # "main" /\ ~lock.poisoned /\ slot = "Some")
    /\ cb.pc = "try" => (TryLockOk /\ slot = "Some")
    /\ cb.pc = "write" => lock.holder = "cb"

\* The third callback of a run is about to try the lock.
C17_Witness ==
    /\ cb.pc = "try"
    /\ buffers = 3
    /\ Len(samples) >= 2

\* C18: the two unwraps of the finalize chain never panic: at lock() the
\* mutex is not poisoned, at take() the slot holds the writer, so the chain
\* runs once and ends Ok or with the writer's I/O error; the only panic of a
\* run is the missing input device.
C18_UnwrapsNeverFail ==
    /\ ~lock.poisoned
    /\ pc = "fin_take" => (slot = "Some" /\ lock.holder = "main")
    /\ Len(finOutcomes) <= 1
    /\ \A i \in DOMAIN finOutcomes : finOutcomes[i] \in {"ok", "err"}
    /\ exit = "panic" => trace = <<[step |-> "open_device", ok |-> FALSE]>>

\* A sample write failed during the capture, and finalize then failed with
\* the writer's own error.
C18_Witness ==
    /\ finOutcomes = <<"err">>
    /\ exit = "FinalizeFailed"
    /\ writeErrs > 0

====
